---- MODULE Spec2Model ----
(***************************************************************************)
(* A model of src/rnn.py: the driver of an LSTM topic classifier.  The     *)
(* script validates its mode flags, preprocesses the corpus, and then      *)
(* either (--train) splits the data, trains and evaluates, or              *)
(* (--train-all) extracts the hidden state of every abstract.              *)
(*                                                                         *)
(* The numeric framework is abstracted: a model state is the number of     *)
(* parameter updates applied to it (plus the run that produced it), a      *)
(* loss, a prediction and a hidden state are uninterpreted records of      *)
(* their arguments.  Arrays are 1-based sequences (Python's are 0-based).  *)
(* The helpers imported from data_utils are not part of src/ and are       *)
(* modelled from the specification.                                        *)
(***************************************************************************)
EXTENDS Integers, Sequences, FiniteSets

VARIABLES pc, err, env, data, train_set, val_set, model, checkpoint, epoch,
          batches, losses, loss, loss_file, fed, nUpdates, nSaves,
          restored, states, hidden_states, out, sp

vars == <<pc, err, env, data, train_set, val_set, model, checkpoint, epoch,
          batches, losses, loss, loss_file, fed, nUpdates, nSaves,
          restored, states, hidden_states, out, sp>>

----------------------------------------------------------------------------
(* Config (src/rnn.py:10-23).  The hyperparameters that size the state     *)
(* space are scaled down: the source has num_epochs = 20, batch_size = 80  *)
(* and max_length = 300.                                                   *)
num_epochs == 2
batch_size == 2
max_length == 3
num_classes == 20
dropout_rate == [num |-> 1, den |-> 2]

(* Bounds of the explored inputs. *)
MaxDocs == 4
VocabSize == 5
MaxSplitDocs == 4
RatioDen == 10

----------------------------------------------------------------------------
(* Generic helpers. *)
Min(a, b) == IF a < b THEN a ELSE b

Range(s) == {s[i] : i \in 1..Len(s)}

Identity(n) == [i \in 1..n |-> i]

(* np.random.shuffle of np.arange(n): any permutation of the indices. *)
Shuffles(n) == {p \in [1..n -> 1..n] : \A i, j \in 1..n : p[i] = p[j] => i = j}

(* numpy integer-array indexing arr[idx]; raises IndexError when an index  *)
(* is out of bounds.                                                       *)
InBounds(arr, idx) == \A j \in 1..Len(idx) : idx[j] \in 1..Len(arr)

Take(arr, idx) == [j \in 1..Len(idx) |-> arr[idx[j]]]

----------------------------------------------------------------------------
(* data_utils: load_labels, load_abstracts, load_embeddings_array,         *)
(* pad_abstracts, vectorize_abstracts and get_minibatches.                 *)

(* The padding token <NULL>, a word outside the pretrained vocabulary. *)
NULL == 0

(* The pretrained vocabulary: the words 1..VocabSize. *)
vocab == [k \in 1..VocabSize |-> k]

(* Abstract i of the corpus: i words (so the corpus has documents shorter  *)
(* than, equal to and longer than max_length).                             *)
RawAbstract(i) == [j \in 1..i |-> ((i + j) % VocabSize) + 1]

load_abstracts(nDocs) == [i \in 1..nDocs |-> RawAbstract(i)]

load_labels(nLabels) == [i \in 1..nLabels |-> i % num_classes]

(* pad_abstracts: truncate to max_len, pad with <NULL>, extend the vocab. *)
PadOne(a, max_len) == [j \in 1..max_len |-> IF j <= Len(a) THEN a[j] ELSE NULL]

pad_abstracts(abstracts, max_len) ==
    [new_abstracts |-> [i \in 1..Len(abstracts) |-> PadOne(abstracts[i], max_len)],
     orig_lengths  |-> [i \in 1..Len(abstracts) |-> Min(Len(abstracts[i]), max_len)],
     new_vocab     |-> Append(vocab, NULL)]

(* vectorize_abstracts: each word becomes its (0-based) position in the    *)
(* vocabulary.                                                             *)
WordId(w, voc) == (CHOOSE k \in 1..Len(voc) : voc[k] = w) - 1

vectorize_abstracts(abstracts, voc) ==
    [i \in 1..Len(abstracts) |-> [j \in 1..Len(abstracts[i]) |-> WordId(abstracts[i][j], voc)]]

(* get_minibatches(abstracts, lengths, labels, batch_size, shuffle): the   *)
(* data in consecutive slices of at most batch_size indices, the last one  *)
(* possibly short.  indices is the visiting order: a permutation when      *)
(* shuffle is set, the identity otherwise.  The generator is lazy, so      *)
(* slicing an array that is too short raises when the batch is drawn.      *)
NumBatches(n, size) == (n + size - 1) \div size

get_minibatches(abstracts, lengths, labels, size, indices) ==
    [k \in 1..NumBatches(Len(abstracts), size) |->
        LET idx == SubSeq(indices, (k - 1) * size + 1, Min(k * size, Len(abstracts)))
            bad == ~(InBounds(lengths, idx) /\ InBounds(labels, idx))
        IN  [abstracts |-> Take(abstracts, idx),
             lengths   |-> IF bad THEN <<>> ELSE Take(lengths, idx),
             labels    |-> IF bad THEN <<>> ELSE Take(labels, idx),
             error     |-> bad]]

----------------------------------------------------------------------------
(* The framework's operations, abstracted. *)

NoModel == [run |-> "none", version |-> 0]

(* session.run(init): fresh variables of this run. *)
InitModel == [run |-> "this", version |-> 0]

(* One Adam step. *)
Update(m) == [m EXCEPT !.version = @ + 1]

(* The scalar loss returned by the step that produces model m. *)
Loss(m) == [run |-> m.run, step |-> m.version]

(* The final hidden state of one document under model m. *)
H(m, a, l) == [m |-> m, a |-> a, l |-> l]

(* argmax of the logits of one document under model m. *)
Argmax(m, a, l) == [m |-> m, a |-> a, l |-> l]

(* Artifacts a previous run may have left on disk. *)
PrevModel == [run |-> "prev", version |-> 1]

NoCheckpoint == [exists |-> FALSE, model |-> NoModel]

PrevCheckpoint == [exists |-> TRUE, model |-> PrevModel]

PrevLossFile == << <<Loss(PrevModel)>> >>

NoStatesFile == [run |-> "none", rows |-> <<>>]

PrevStatesFile == [run |-> "prev", rows |-> <<>>]

----------------------------------------------------------------------------
(* RNN *)

(* add_placeholders: the abstracts placeholder has shape (None, max_length). *)
abstracts_placeholder == [rows |-> "None", cols |-> max_length]

(* Feeding a batch whose rows do not have the placeholder's width makes    *)
(* session.run raise.                                                      *)
ShapeOK(abstracts_batch) ==
    \A i \in 1..Len(abstracts_batch) : Len(abstracts_batch[i]) = abstracts_placeholder.cols

(* The default value of create_feed_dict's dropout_rate parameter. *)
DefaultDropout == [num |-> 1, den |-> 1]

NoLabels == <<>>

create_feed_dict(abstracts_batch, lengths_batch, labels_batch, rate) ==
    [abstracts |-> abstracts_batch, lengths |-> lengths_batch,
     labels |-> labels_batch, dropout |-> rate]

NoFeed == [op |-> "none", n |-> 0, feed_dict |-> create_feed_dict(<<>>, <<>>, NoLabels, DefaultDropout)]

(* The feed_dict each of the three batch methods passes to session.run. *)
train_on_batch_feed(abstracts_batch, lengths_batch, labels_batch) ==
    create_feed_dict(abstracts_batch, lengths_batch, labels_batch, dropout_rate)

predict_on_batch_feed(abstracts_batch, lengths_batch) ==
    create_feed_dict(abstracts_batch, lengths_batch, NoLabels, DefaultDropout)

(* get_states_on_batch feeding the training dropout rate. *)
get_states_on_batch_feed_dropout(abstracts_batch, lengths_batch) ==
    create_feed_dict(abstracts_batch, lengths_batch, NoLabels, dropout_rate)

get_states_on_batch_feed(abstracts_batch, lengths_batch) ==
    create_feed_dict(abstracts_batch, lengths_batch, NoLabels, DefaultDropout)

Run(op, feed_dict) == [op |-> op, n |-> fed.n + 1, feed_dict |-> feed_dict]

----------------------------------------------------------------------------
(* preprocess_data and split_data *)

NoData == [abstracts |-> <<>>, lengths |-> <<>>, labels |-> <<>>, loaded |-> FALSE]

preprocess_data(nLabels, nDocs, max_len) ==
    LET labels    == load_labels(nLabels)
        abstracts == load_abstracts(nDocs)
        padded    == pad_abstracts(abstracts, max_len)
    IN  [abstracts |-> vectorize_abstracts(padded.new_abstracts, padded.new_vocab),
         lengths   |-> padded.orig_lengths,
         labels    |-> labels,
         loaded    |-> TRUE]

NoSet == [abstracts |-> <<>>, lengths |-> <<>>, labels |-> <<>>]

(* train_ratio is the rational num/den; int() truncates the product. *)
SplitIndex(n, ratio) == (n * ratio.num) \div ratio.den

TrainIndices(indices, ratio) == SubSeq(indices, 1, SplitIndex(Len(indices), ratio))

(* ValIndices starting one index too late. *)
ValIndicesOffByOne(indices, ratio) == SubSeq(indices, SplitIndex(Len(indices), ratio) + 2, Len(indices))

ValIndices(indices, ratio) == SubSeq(indices, SplitIndex(Len(indices), ratio) + 1, Len(indices))

Slice(abstracts, lengths, labels, idx) ==
    [abstracts |-> Take(abstracts, idx), lengths |-> Take(lengths, idx), labels |-> Take(labels, idx)]

(* indices is the shuffled np.arange(len(abstracts)). *)
split_data(abstracts, lengths, labels, indices, ratio) ==
    LET train_indices == TrainIndices(indices, ratio)
        val_indices   == ValIndices(indices, ratio)
        ok == /\ InBounds(lengths, train_indices) /\ InBounds(labels, train_indices)
              /\ InBounds(lengths, val_indices) /\ InBounds(labels, val_indices)
    IN  IF ok
        THEN [error |-> FALSE,
              train_set |-> Slice(abstracts, lengths, labels, train_indices),
              val_set   |-> Slice(abstracts, lengths, labels, val_indices)]
        ELSE [error |-> TRUE, train_set |-> NoSet, val_set |-> NoSet]

(* The ratio __main__ passes: train_ratio=0.9. *)
MainTrainRatio == [num |-> 9, den |-> 10]

----------------------------------------------------------------------------
(* save_loss opening the file with "w". *)
save_loss_truncate(file, ls) == <<ls>>

(* save_loss: open("training_loss", "a"), one line holding the losses. *)
save_loss(file, ls) == Append(file, ls)

(* save_states: np.savetxt overwrites hidden_states. *)
save_states(sts) == [run |-> "this", rows |-> sts]

----------------------------------------------------------------------------
(* The command line and the files a run starts from. *)

(* --max-length has no default: omitted, the argument is None. *)
MaxLengthArgs ==
    {[omitted |-> FALSE, value |-> v] : v \in {max_length, max_length - 1, max_length + 1}} \cup
    {[omitted |-> TRUE, value |-> 0]}

Envs ==
    {e \in [train : BOOLEAN, train_all : BOOLEAN, max_length : MaxLengthArgs,
            nDocs : 1..MaxDocs, nLabels : 0..(MaxDocs + 1), prev : BOOLEAN] :
        e.nLabels \in {e.nDocs - 1, e.nDocs, e.nDocs + 1}}

NoSplit == [called |-> FALSE, n |-> 0, ratio |-> MainTrainRatio, indices |-> <<>>,
            result |-> [error |-> FALSE, train_set |-> NoSet, val_set |-> NoSet]]

Init ==
    /\ env \in Envs
    /\ pc = "validate"
    /\ err = "none"
    /\ data = NoData
    /\ train_set = NoSet
    /\ val_set = NoSet
    /\ model = NoModel
    /\ checkpoint = IF env.prev THEN PrevCheckpoint ELSE NoCheckpoint
    /\ epoch = 0
    /\ batches = <<>>
    /\ losses = <<>>
    /\ loss = Loss(NoModel)
    /\ loss_file = IF env.prev THEN PrevLossFile ELSE <<>>
    /\ fed = NoFeed
    /\ nUpdates = 0
    /\ nSaves = 0
    /\ restored = NoCheckpoint
    /\ states = <<>>
    /\ hidden_states = IF env.prev THEN PrevStatesFile ELSE NoStatesFile
    /\ out = <<>>
    /\ sp = NoSplit

Raise(e) == pc' = "error" /\ err' = e

----------------------------------------------------------------------------
(* __main__ *)

(* Validate with the test written as "not (train and train_all)". *)
ValidateBothFlags ==
    /\ pc = "validate"
    /\ IF ~(env.train /\ env.train_all)
       THEN Raise("ValueError")
       ELSE pc' = "preprocess_data" /\ UNCHANGED err
    /\ UNCHANGED <<env, data, train_set, val_set, model, checkpoint, epoch, batches,
                   losses, loss, loss_file, fed, nUpdates, nSaves, restored, states,
                   hidden_states, out, sp>>

(* Lines 271-272: the mode flags are validated before anything else. *)
Validate ==
    /\ pc = "validate"
    /\ IF ~(env.train \/ env.train_all)
       THEN Raise("ValueError")
       ELSE pc' = "preprocess_data" /\ UNCHANGED err
    /\ UNCHANGED <<env, data, train_set, val_set, model, checkpoint, epoch, batches,
                   losses, loss, loss_file, fed, nUpdates, nSaves, restored, states,
                   hidden_states, out, sp>>

(* Lines 273-274: preprocess_data with the --max-length that was given. *)
PreprocessData ==
    /\ pc = "preprocess_data"
    /\ ~env.max_length.omitted
    /\ data' = preprocess_data(env.nLabels, env.nDocs, env.max_length.value)
    /\ pc' = "mode"
    /\ UNCHANGED <<err, env, train_set, val_set, model, checkpoint, epoch, batches,
                   losses, loss, loss_file, fed, nUpdates, nSaves, restored, states,
                   hidden_states, out, sp>>

(* Lines 273-274 when --max-length is omitted: pad_abstracts receives None. *)
(* What it does then is not stated: it either raises or pads every         *)
(* abstract to the longest one.                                            *)
PreprocessDataNoLength ==
    /\ pc = "preprocess_data"
    /\ env.max_length.omitted
    /\ \/ Raise("TypeError") /\ UNCHANGED data
       \/ /\ data' = preprocess_data(env.nLabels, env.nDocs, env.nDocs)
          /\ pc' = "mode"
          /\ UNCHANGED err
    /\ UNCHANGED <<env, train_set, val_set, model, checkpoint, epoch, batches,
                   losses, loss, loss_file, fed, nUpdates, nSaves, restored, states,
                   hidden_states, out, sp>>

(* Line 276: split_data(abstracts, lengths, labels, train_ratio=0.9). *)
SplitData ==
    /\ pc = "mode"
    /\ env.train
    /\ \E indices \in Shuffles(Len(data.abstracts)) :
          LET r == split_data(data.abstracts, data.lengths, data.labels, indices, MainTrainRatio)
          IN  IF r.error
              THEN Raise("IndexError") /\ UNCHANGED <<train_set, val_set>>
              ELSE /\ train_set' = r.train_set
                   /\ val_set' = r.val_set
                   /\ pc' = "train"
                   /\ UNCHANGED err
    /\ UNCHANGED <<env, data, model, checkpoint, epoch, batches,
                   losses, loss, loss_file, fed, nUpdates, nSaves, restored, states,
                   hidden_states, out, sp>>

----------------------------------------------------------------------------
(* train (lines 167-189) *)

(* Lines 171-178: build the graph, open the session, initialise. *)
TrainBegin ==
    /\ pc = "train"
    /\ model' = InitModel
    /\ epoch' = 0
    /\ pc' = "epoch"
    /\ UNCHANGED <<err, env, data, train_set, val_set, checkpoint, batches,
                   losses, loss, loss_file, fed, nUpdates, nSaves, restored, states,
                   hidden_states, out, sp>>

(* Lines 179-183: the next epoch starts with an empty loss list and a      *)
(* freshly shuffled sequence of minibatches.                               *)
EpochBegin ==
    /\ pc = "epoch"
    /\ epoch < num_epochs
    /\ losses' = <<>>
    /\ \E indices \in Shuffles(Len(train_set.abstracts)) :
          batches' = get_minibatches(train_set.abstracts, train_set.lengths,
                                     train_set.labels, batch_size, indices)
    /\ pc' = "batch"
    /\ UNCHANGED <<err, env, data, train_set, val_set, model, checkpoint, epoch,
                   loss, loss_file, fed, nUpdates, nSaves, restored, states,
                   hidden_states, out, sp>>

(* Line 184: rnn.train_on_batch runs train_op and loss on the batch. *)
TrainOnBatch ==
    /\ pc = "batch"
    /\ batches # <<>>
    /\ LET batch == Head(batches)
       IN  IF batch.error
           THEN Raise("IndexError") /\ UNCHANGED <<model, loss, nUpdates, fed>>
           ELSE /\ fed' = Run("train_op", train_on_batch_feed(batch.abstracts, batch.lengths, batch.labels))
                /\ IF ~ShapeOK(batch.abstracts)
                   THEN Raise("ValueError: shape") /\ UNCHANGED <<model, loss, nUpdates>>
                   ELSE /\ model' = Update(model)
                        /\ loss' = Loss(Update(model))
                        /\ nUpdates' = nUpdates + 1
                        /\ pc' = "append"
                        /\ UNCHANGED err
    /\ UNCHANGED <<env, data, train_set, val_set, checkpoint, epoch, batches,
                   losses, loss_file, nSaves, restored, states,
                   hidden_states, out, sp>>

(* Line 185: losses.append(loss). *)
AppendLoss ==
    /\ pc = "append"
    /\ losses' = Append(losses, loss)
    /\ pc' = "save"
    /\ UNCHANGED <<err, env, data, train_set, val_set, model, checkpoint, epoch,
                   batches, loss, loss_file, fed, nUpdates, nSaves, restored, states,
                   hidden_states, out, sp>>

(* Line 187: saver.save(session, "./weights/train") overwrites the slot. *)
SaverSave ==
    /\ pc = "save"
    /\ checkpoint' = [exists |-> TRUE, model |-> model]
    /\ nSaves' = nSaves + 1
    /\ batches' = Tail(batches)
    /\ pc' = "batch"
    /\ UNCHANGED <<err, env, data, train_set, val_set, model, epoch,
                   losses, loss, loss_file, fed, nUpdates, restored, states,
                   hidden_states, out, sp>>

(* Line 188: the minibatches are exhausted; save_loss(losses). *)
SaveLoss ==
    /\ pc = "batch"
    /\ batches = <<>>
    /\ loss_file' = save_loss(loss_file, losses)
    /\ epoch' = epoch + 1
    /\ pc' = "epoch"
    /\ UNCHANGED <<err, env, data, train_set, val_set, model, checkpoint,
                   batches, losses, loss, fed, nUpdates, nSaves, restored, states,
                   hidden_states, out, sp>>

(* TrainReturn with early stopping: train may return after any epoch. *)
TrainReturnEarly ==
    /\ pc = "epoch"
    /\ epoch >= 1
    /\ pc' = "predict"
    /\ UNCHANGED <<err, env, data, train_set, val_set, model, checkpoint, epoch,
                   batches, losses, loss, loss_file, fed, nUpdates, nSaves, restored,
                   states, hidden_states, out, sp>>

(* Line 189: all epochs are done, train returns to line 278. *)
TrainReturn ==
    /\ pc = "epoch"
    /\ epoch >= num_epochs
    /\ pc' = "predict"
    /\ UNCHANGED <<err, env, data, train_set, val_set, model, checkpoint, epoch,
                   batches, losses, loss, loss_file, fed, nUpdates, nSaves, restored,
                   states, hidden_states, out, sp>>
----------------------------------------------------------------------------
(* predict (lines 200-225), as __main__ calls it on the validation set. *)

(* Lines 206-219: a fresh graph, the checkpoint restored into a new        *)
(* session, and the whole validation set fed to predict_on_batch at once.  *)
Predict ==
    /\ pc = "predict"
    /\ IF ~checkpoint.exists
       THEN Raise("NotFoundError") /\ UNCHANGED <<model, restored, fed, out>>
       ELSE /\ model' = checkpoint.model
            /\ restored' = checkpoint
            /\ fed' = Run("argmax", predict_on_batch_feed(val_set.abstracts, val_set.lengths))
            /\ IF ~ShapeOK(val_set.abstracts)
               THEN Raise("ValueError: shape") /\ UNCHANGED out
               ELSE /\ out' = [i \in 1..Len(val_set.abstracts) |->
                                 Argmax(checkpoint.model, val_set.abstracts[i], val_set.lengths[i])]
                    /\ pc' = "print_accuracy"
                    /\ UNCHANGED err
    /\ UNCHANGED <<env, data, train_set, val_set, checkpoint, epoch, batches,
                   losses, loss, loss_file, nUpdates, nSaves, states,
                   hidden_states, sp>>

(* Line 279: the format string has no conversion specifier, so applying    *)
(* % to it raises TypeError.                                               *)
PrintAccuracy ==
    /\ pc = "print_accuracy"
    /\ Raise("TypeError")
    /\ UNCHANGED <<env, data, train_set, val_set, model, checkpoint, epoch, batches,
                   losses, loss, loss_file, fed, nUpdates, nSaves, restored, states,
                   hidden_states, out, sp>>

----------------------------------------------------------------------------
(* get_all_states (lines 227-248) and save_states, the --train-all branch. *)
(* Line 281, the call of train, is commented out in the source.            *)

(* Lines 233-243: a fresh graph, the checkpoint restored, an empty result  *)
(* and the unshuffled minibatches of the whole dataset.                    *)
GetAllStatesBegin ==
    /\ pc = "mode"
    /\ ~env.train
    /\ env.train_all
    /\ IF ~checkpoint.exists
       THEN Raise("NotFoundError") /\ UNCHANGED <<model, restored, states, batches>>
       ELSE /\ model' = checkpoint.model
            /\ restored' = checkpoint
            /\ states' = <<>>
            /\ batches' = get_minibatches(data.abstracts, data.lengths, data.labels,
                                          batch_size, Identity(Len(data.abstracts)))
            /\ pc' = "states_batch"
            /\ UNCHANGED err
    /\ UNCHANGED <<env, data, train_set, val_set, checkpoint, epoch,
                   losses, loss, loss_file, fed, nUpdates, nSaves,
                   hidden_states, out, sp>>

(* AppendRows keeping only the last batch. *)
AppendRowsOverwrite(sts, batch_states) == batch_states

(* np.append(states, batch_states, axis=0) *)
AppendRows(sts, batch_states) == sts \o batch_states

(* Lines 243-246: the hidden states of the next batch are appended. *)
GetStatesOnBatch ==
    /\ pc = "states_batch"
    /\ batches # <<>>
    /\ LET batch == Head(batches)
       IN  IF batch.error
           THEN Raise("IndexError") /\ UNCHANGED <<fed, states, batches>>
           ELSE /\ fed' = Run("states", get_states_on_batch_feed(batch.abstracts, batch.lengths))
                /\ IF ~ShapeOK(batch.abstracts)
                   THEN Raise("ValueError: shape") /\ UNCHANGED <<states, batches>>
                   ELSE /\ states' = AppendRows(states,
                                        [i \in 1..Len(batch.abstracts) |->
                                            H(model, batch.abstracts[i], batch.lengths[i])])
                        /\ batches' = Tail(batches)
                        /\ UNCHANGED <<pc, err>>
    /\ UNCHANGED <<env, data, train_set, val_set, model, checkpoint, epoch,
                   losses, loss, loss_file, nUpdates, nSaves, restored,
                   hidden_states, out, sp>>

(* Lines 248 and 283: get_all_states returns and save_states writes the    *)
(* hidden_states file.                                                     *)
SaveStates ==
    /\ pc = "states_batch"
    /\ batches = <<>>
    /\ hidden_states' = save_states(states)
    /\ pc' = "finish"
    /\ UNCHANGED <<err, env, data, train_set, val_set, model, checkpoint, epoch,
                   batches, losses, loss, loss_file, fed, nUpdates, nSaves, restored,
                   states, out, sp>>

(* Line 284: the total time is printed and the script ends. *)
Finish ==
    /\ pc = "finish"
    /\ pc' = "done"
    /\ UNCHANGED <<err, env, data, train_set, val_set, model, checkpoint, epoch,
                   batches, losses, loss, loss_file, fed, nUpdates, nSaves, restored,
                   states, hidden_states, out, sp>>

Next ==
    \/ Validate
    \/ PreprocessData
    \/ PreprocessDataNoLength
    \/ SplitData
    \/ TrainBegin
    \/ EpochBegin
    \/ TrainOnBatch
    \/ AppendLoss
    \/ SaverSave
    \/ SaveLoss
    \/ TrainReturn
    \/ Predict
    \/ PrintAccuracy
    \/ GetAllStatesBegin
    \/ GetStatesOnBatch
    \/ SaveStates
    \/ Finish

Spec == Init /\ [][Next]_vars
----------------------------------------------------------------------------
(* split_data on its own: any document count and any train_ratio           *)
(* k / RatioDen in [0, 1], applied to preprocessed data.                   *)

InitSplit ==
    /\ \E n \in 0..MaxSplitDocs, k \in 0..RatioDen :
          sp = [NoSplit EXCEPT !.n = n, !.ratio = [num |-> k, den |-> RatioDen]]
    /\ pc = "split_data"
    /\ err = "none"
    /\ env = [train |-> TRUE, train_all |-> FALSE,
              max_length |-> [omitted |-> FALSE, value |-> max_length],
              nDocs |-> 1, nLabels |-> 1, prev |-> FALSE]
    /\ data = NoData
    /\ train_set = NoSet
    /\ val_set = NoSet
    /\ model = NoModel
    /\ checkpoint = NoCheckpoint
    /\ epoch = 0
    /\ batches = <<>>
    /\ losses = <<>>
    /\ loss = Loss(NoModel)
    /\ loss_file = <<>>
    /\ fed = NoFeed
    /\ nUpdates = 0
    /\ nSaves = 0
    /\ restored = NoCheckpoint
    /\ states = <<>>
    /\ hidden_states = NoStatesFile
    /\ out = <<>>

SplitInput == preprocess_data(sp.n, sp.n, max_length)

SplitCall ==
    /\ pc = "split_data"
    /\ ~sp.called
    /\ \E indices \in Shuffles(sp.n) :
          sp' = [sp EXCEPT !.called = TRUE, !.indices = indices,
                           !.result = split_data(SplitInput.abstracts, SplitInput.lengths,
                                                 SplitInput.labels, indices, sp.ratio)]
    /\ UNCHANGED <<pc, err, env, data, train_set, val_set, model, checkpoint, epoch,
                   batches, losses, loss, loss_file, fed, nUpdates, nSaves, restored,
                   states, hidden_states, out>>

NextSplit == SplitCall

SpecSplit == InitSplit /\ [][NextSplit]_vars
----------------------------------------------------------------------------
(* Properties. *)

(* The files as the run found them. *)
InitialCheckpoint == IF env.prev THEN PrevCheckpoint ELSE NoCheckpoint

InitialLossFile == IF env.prev THEN PrevLossFile ELSE <<>>

InitialStatesFile == IF env.prev THEN PrevStatesFile ELSE NoStatesFile

NothingHappened ==
    /\ data = NoData
    /\ fed = NoFeed
    /\ nUpdates = 0
    /\ nSaves = 0
    /\ checkpoint = InitialCheckpoint
    /\ loss_file = InitialLossFile
    /\ hidden_states = InitialStatesFile

(* The number of minibatches of one epoch over the training split. *)
BatchesPerEpoch ==
    Len(get_minibatches(train_set.abstracts, train_set.lengths, train_set.labels,
                        batch_size, Identity(Len(train_set.abstracts))))

(* The minibatches of the current epoch already drawn. *)
Drawn == BatchesPerEpoch - Len(batches)

(* C1: started with neither --train nor --train-all the run ends with a    *)
(* ValueError and nothing else has happened: no preprocessing, no feed, no *)
(* update, no checkpoint, loss-log or hidden-state write.  With one of the *)
(* flags set the validation never raises.                                  *)
C1_ValidationFirst ==
    /\ ~(env.train \/ env.train_all) =>
          /\ pc \in {"validate", "error"}
          /\ pc = "error" => err = "ValueError"
          /\ NothingHappened
    /\ (env.train \/ env.train_all) => err # "ValueError"

C1_Witness == pc = "error" /\ err = "ValueError" /\ ~env.train /\ ~env.train_all /\ env.prev

(* C2: train runs exactly num_epochs epochs; for every minibatch there is  *)
(* one update, then its loss is recorded, then one checkpoint write,       *)
(* before the next minibatch; when train has returned the updates and the  *)
(* checkpoint writes both number num_epochs times the minibatches of an    *)
(* epoch.                                                                  *)
C2_TrainLoop ==
    /\ epoch <= num_epochs
    /\ pc = "epoch" => nUpdates = epoch * BatchesPerEpoch /\ nSaves = nUpdates
    /\ pc = "batch" =>
          /\ nUpdates = epoch * BatchesPerEpoch + Drawn
          /\ nSaves = nUpdates
          /\ Len(losses) = Drawn
    /\ pc = "append" =>
          /\ nUpdates = epoch * BatchesPerEpoch + Drawn + 1
          /\ nSaves = nUpdates - 1
          /\ Len(losses) = Drawn
    /\ pc = "save" =>
          /\ nUpdates = epoch * BatchesPerEpoch + Drawn + 1
          /\ nSaves = nUpdates - 1
          /\ Len(losses) = Drawn + 1
          /\ losses[Len(losses)] = Loss(model)
    /\ pc = "predict" =>
          /\ epoch = num_epochs
          /\ nUpdates = num_epochs * BatchesPerEpoch
          /\ nSaves = nUpdates

C2_Witness == pc = "predict" /\ BatchesPerEpoch >= 2 /\ nUpdates = num_epochs * BatchesPerEpoch

(* C3: at the end of every epoch, and so when train has returned, the      *)
(* checkpoint holds the current model state, and predict restores the      *)
(* state left by the last update of this run, for any training split.      *)
C3_CheckpointAfterEpoch ==
    /\ ((pc = "epoch" /\ epoch >= 1) \/ pc = "predict") =>
          checkpoint = [exists |-> TRUE, model |-> model]
    /\ pc = "print_accuracy" => restored.model = [run |-> "this", version |-> nUpdates]

(* C4: in a --train-all run the checkpoint get_all_states restores was     *)
(* written by a training pass of the same run.                             *)
C4_TrainAllTrainsFirst ==
    (env.train_all /\ ~env.train /\ restored.exists) =>
        (restored.model.run = "this" /\ nUpdates > 0)

(* C5: every run of the training operation is fed Config.dropout_rate,     *)
(* every inference run (argmax of the logits, hidden states) is fed 1, and *)
(* an inference run performs no update, writes no checkpoint and leaves    *)
(* the session holding the model state that was restored.                  *)
C5_DropoutOnlyInTraining ==
    [][fed' # fed =>
          /\ fed'.op \in {"train_op", "argmax", "states"}
          /\ fed'.op = "train_op" => fed'.feed_dict.dropout = [num |-> 1, den |-> 2]
          /\ fed'.op \in {"argmax", "states"} =>
                /\ fed'.feed_dict.dropout.num = fed'.feed_dict.dropout.den
                /\ nUpdates' = nUpdates
                /\ nSaves' = nSaves
                /\ checkpoint' = checkpoint
                /\ model' = restored'.model]_vars

C5_Witness == pc = "print_accuracy" /\ fed.op = "argmax" /\ nUpdates > 0

(* C6: get_all_states returns one row per document, row i being the       *)
(* hidden state of document i under the restored model, also when the      *)
(* last batch is short; the rows gathered so far are always those of the   *)
(* first documents, in order.                                              *)
C6_StatesInOrder ==
    /\ pc = "states_batch" =>
          /\ Len(states) = Min(env.nDocs,
                               (NumBatches(env.nDocs, batch_size) - Len(batches)) * batch_size)
          /\ \A i \in 1..Len(states) :
                states[i] = H(restored.model, data.abstracts[i], data.lengths[i])
    /\ pc \in {"finish", "done"} =>
          /\ states = hidden_states.rows
          /\ Len(hidden_states.rows) = env.nDocs
          /\ \A i \in 1..env.nDocs :
                hidden_states.rows[i] = H(restored.model, data.abstracts[i], data.lengths[i])

C6_Witness ==
    /\ pc = "done"
    /\ env.nDocs > batch_size
    /\ env.nDocs % batch_size # 0
    /\ Len(hidden_states.rows) = env.nDocs

(* C7: split_data yields floor(N * train_ratio) training documents and the *)
(* remaining ones for validation; every document is in exactly one of the  *)
(* two sets and keeps its own length and label.                            *)
DocIndex(a) == CHOOSE i \in 1..sp.n : SplitInput.abstracts[i] = a

KeepsOwn(set) ==
    \A j \in 1..Len(set.abstracts) :
        /\ Len(set.lengths) = Len(set.abstracts)
        /\ Len(set.labels) = Len(set.abstracts)
        /\ set.abstracts[j] \in Range(SplitInput.abstracts)
        /\ set.lengths[j] = SplitInput.lengths[DocIndex(set.abstracts[j])]
        /\ set.labels[j] = SplitInput.labels[DocIndex(set.abstracts[j])]

C7_SplitPartitions ==
    sp.called =>
        LET train == sp.result.train_set
            val   == sp.result.val_set
            nt    == Len(train.abstracts)
            nv    == Len(val.abstracts)
        IN  /\ ~sp.result.error
            /\ sp.ratio.den * nt <= sp.n * sp.ratio.num
            /\ sp.n * sp.ratio.num < sp.ratio.den * (nt + 1)
            /\ nv = sp.n - nt
            /\ Range(train.abstracts) \cup Range(val.abstracts) = Range(SplitInput.abstracts)
            /\ Range(train.abstracts) \cap Range(val.abstracts) = {}
            /\ Cardinality(Range(train.abstracts)) = nt
            /\ Cardinality(Range(val.abstracts)) = nv
            /\ KeepsOwn(train)
            /\ KeepsOwn(val)

C7_Witness ==
    /\ sp.called
    /\ Len(sp.result.train_set.abstracts) >= 2
    /\ Len(sp.result.val_set.abstracts) >= 2
    /\ (sp.n * sp.ratio.num) % sp.ratio.den # 0
    /\ sp.indices # Identity(sp.n)

(* C8: when the number of labels differs from the number of abstracts the  *)
(* run performs no training step and no checkpoint write.                  *)
C8_LabelMismatchFails ==
    env.nLabels # env.nDocs => (nUpdates = 0 /\ nSaves = 0)

(* C9: the loss log only grows: what the file held before the run stays,   *)
(* each finished epoch has appended one line, that line holds the losses   *)
(* of that epoch's minibatches in order, and a returned train has appended *)
(* num_epochs lines.                                                       *)
C9_LossLogAppendOnly ==
    /\ Len(loss_file) = Len(InitialLossFile) + epoch
    /\ SubSeq(loss_file, 1, Len(InitialLossFile)) = InitialLossFile
    /\ \A e \in 1..epoch :
          loss_file[Len(InitialLossFile) + e] =
              [k \in 1..BatchesPerEpoch |->
                  [run |-> "this", step |-> (e - 1) * BatchesPerEpoch + k]]
    /\ pc = "predict" => Len(loss_file) = Len(InitialLossFile) + num_epochs

C9_Witness ==
    /\ pc = "predict"
    /\ env.prev
    /\ BatchesPerEpoch >= 2
    /\ Len(loss_file) = Len(PrevLossFile) + num_epochs

(* C10: the documents preprocess_data produces have the --max-length that  *)
(* was given, and every batch fed to the network has the width its         *)
(* abstracts placeholder expects.                                          *)
C10_OneLength ==
    /\ (data.loaded /\ ~env.max_length.omitted) =>
          \A i \in 1..Len(data.abstracts) : Len(data.abstracts[i]) = env.max_length.value
    /\ fed.op # "none" =>
          \A i \in 1..Len(fed.feed_dict.abstracts) :
              Len(fed.feed_dict.abstracts[i]) = abstracts_placeholder.cols
====
